---------------------------- MODULE Spec2Model ----------------------------
(***************************************************************************)
(* A model of the watermarker command-line tool                            *)
(* (src/src/watermarker/add_watermark.py, watermark_utils.py, enums.py).   *)
(*                                                                         *)
(* Three specifications share one set of variables:                        *)
(*   Spec       one process run: main() in batch or single-image mode, or  *)
(*              a direct call of add_watermark() by a Python caller;        *)
(*              add_watermark is modelled statement by statement.           *)
(*   SpecGeom   validate_image_and_watermark and calculate_position        *)
(*              applied to inputs drawn from bounded sets.                  *)
(*   SpecCache  an arbitrary sequence of load_cached_watermark requests.    *)
(*                                                                         *)
(* Not modelled: watermarker.py (an older batch script that calls           *)
(* add_watermark with its defaults and catches nothing) and the option     *)
(* parsing of click_enum_choice.py.                                         *)
(*                                                                         *)
(* Numbers: opacity is kept in tenths (15 is 1.5), a scale ratio is the    *)
(* fraction num/den.  Images are heap objects [w, h, px]; variables hold   *)
(* references, so that aliasing between the cached overlay and the locals  *)
(* of add_watermark is visible.                                            *)
(***************************************************************************)
EXTENDS Integers, Sequences, FiniteSets, TLC

VARIABLES
    caller,                 \* "batch" | "single" | "api" | "geom" | "cache"
    opacity,                \* --opacity / opacity argument, in tenths
    position,               \* --position / position argument
    padding,                \* --padding / padding argument
    color_opt,              \* --color as split and converted by main, <<>> when absent
    color,                  \* color_tuple handed to add_watermark, <<>> for None
    watermark_scale_ratio,  \* [num, den]
    watermark_image_path,   \* path of the overlay file
    dir_size,               \* number of entries target_image_path.glob("*") yields
    idx,                    \* index of the directory entry being processed
    pc,                     \* statement about to be executed
    exc,                    \* exception raised by the current add_watermark call
    target_image,           \* local of add_watermark: reference, 0 when unbound
    watermark_image,        \* local of add_watermark: reference, 0 when unbound
    position_x_y,           \* local of add_watermark: <<x, y>>, <<>> when unbound
    heap,                   \* reference -> image object
    cache,                  \* lru_cache store of load_cached_watermark
    disk,                   \* path -> overlay file
    io,                     \* file operations performed by the process so far
    decodes,                \* number of times an overlay file was decoded
    outputs,                \* entries whose output file has been written
    echo,                   \* last line written by click.echo
    exit_code,              \* -1 while running
    attempted,              \* entries add_watermark was called for
    pasted,                 \* the current call has pasted onto the target
    saved,                  \* the current call has written its output
    request,                \* last load_cached_watermark request and its outcome
    geom                    \* inputs and results of the geometry functions

vars == <<caller, opacity, position, padding, color_opt, color,
          watermark_scale_ratio, watermark_image_path, dir_size, idx, pc, exc,
          target_image, watermark_image, position_x_y, heap, cache, disk, io,
          decodes, outputs, echo, exit_code, attempted, pasted, saved,
          request, geom>>

argVars   == <<caller, opacity, position, padding, color_opt,
               watermark_scale_ratio, watermark_image_path, dir_size, disk>>

-----------------------------------------------------------------------------
(* Bounds of the model *)

MaxEntries       == 2    \* directory entries in batch mode
SmallSide        == 5    \* a target side below 10 pixels
MidSide          == 12   \* a target side between 10 and 19 pixels
LargeSide        == 45   \* a target side that holds the default padding twice
MaxWatermarkSide == 2    \* overlay file sides are 1..MaxWatermarkSide
MaxPadding       == 22   \* largest padding tried
MaxRefs          == 4    \* image objects alive at once
MaxRequests      == 3    \* load_cached_watermark requests in SpecCache
MaxGeomBase      == 6    \* base sides in SpecGeom
MaxGeomOverlay   == 4    \* overlay sides in SpecGeom
MaxGeomPadding   == 3    \* padding in SpecGeom

(* Program constants *)

DEFAULT_OPACITY  == 10                          \* 1.0, in tenths
DEFAULT_PADDING  == 20
DEFAULT_WATERMARK_SCALE_RATIO == [num |-> 1, den |-> 10]
CACHE_MAXSIZE    == 1                           \* lru_cache(maxsize=1)

WatermarkPosition ==
    {"bottom-right", "bottom-left", "top-right", "top-left", "center"}

-----------------------------------------------------------------------------
(* Input sets *)

TargetSides    == {SmallSide, MidSide, LargeSide}
NotAnImage     == [ok |-> FALSE, w |-> 0, h |-> 0]
TargetFiles    == {[ok |-> TRUE, w |-> w, h |-> h] : w \in TargetSides, h \in TargetSides}
                      \cup {NotAnImage}
WatermarkFiles == {[ok |-> TRUE, w |-> w, h |-> h] :
                       w \in 1..MaxWatermarkSide, h \in 1..MaxWatermarkSide}
                      \cup {NotAnImage}
WatermarkPaths == {1, 2}
Opacities      == {-1, 5, DEFAULT_OPACITY, 15}
Paddings       == {0, DEFAULT_PADDING, MaxPadding}
NoColor        == <<>>
Red            == <<255, 0, 0>>
ColorOptions   == {NoColor, Red, <<999, 0, 0>>, <<1, 2>>}
Ratios         == {DEFAULT_WATERMARK_SCALE_RATIO, [num |-> 1, den |-> 1],
                   [num |-> 0, den |-> 1], [num |-> -1, den |-> 10]}

-----------------------------------------------------------------------------
(* Image objects *)

Refs    == 1..MaxRefs
Free    == [w |-> 0, h |-> 0, px |-> [stage |-> "free", src |-> 0, opacity |-> 0, color |-> <<>>]]
Img(w, h, stage, src, op, col) ==
    [w |-> w, h |-> h, px |-> [stage |-> stage, src |-> src, opacity |-> op, color |-> col]]
EmptyHeap == [r \in Refs |-> Free]
NewRef(h) == CHOOSE r \in Refs : h[r] = Free /\ \A s \in Refs : s < r => h[s] # Free

Min(a, b) == IF a < b THEN a ELSE b
Max(a, b) == IF a > b THEN a ELSE b

(* Python's int() on the real n/d, d > 0: truncation toward zero. *)
Trunc(n, d) == IF n >= 0 THEN n \div d ELSE -((-n) \div d)


-----------------------------------------------------------------------------
(* watermark_utils.py and the helpers of add_watermark.py, as operators.    *)
(* An operator that can raise returns a record with a field "raised".       *)

(* Mutant: the two size tests joined by "and" instead of "or". *)
validate_both_axes_too_small(target, watermark, pad) ==
    IF target.w < watermark.w + 2 * pad /\ target.h < watermark.h + 2 * pad
    THEN FALSE
    ELSE TRUE

(* validate_image_and_watermark(target_image, watermark_image, padding) *)
validate_image_and_watermark(target, watermark, pad) ==
    IF target.w < watermark.w + 2 * pad \/ target.h < watermark.h + 2 * pad
    THEN FALSE
    ELSE TRUE

(* adjust_opacity(image, opacity, color): image.convert("RGBA") makes a new  *)
(* image of the same size; its colour is replaced by the tint when one is    *)
(* given and its alpha is multiplied by opacity.  Nothing here looks at the  *)
(* range of opacity.                                                         *)
adjust_opacity(file, path, op, col) ==
    Img(file.w, file.h, "adjusted", path, op, col)

(* Mutant: a key that leaves the colour out. *)
CacheKeyWithoutColor(path, op, col) == <<path, op>>

(* The key functools.lru_cache builds from the call's arguments. *)
CacheKey(path, op, col) == <<path, op, col>>

(* load_cached_watermark under @lru_cache(maxsize=1).  A hit returns the    *)
(* held object.  A miss runs the body: Image.open raises an OSError on a    *)
(* file that is no image, and lru_cache stores nothing when the body         *)
(* raises; otherwise the result is stored and, the store being full, the    *)
(* oldest entry is dropped with its image.                                   *)
load_cached_watermark(c, h, d, path, op, col) ==
    LET key  == CacheKey(path, op, col)
        hits == {i \in 1..Len(c) : c[i].key = key}
    IN  IF hits # {}
        THEN [raised |-> FALSE, hit |-> TRUE, cache |-> c, heap |-> h,
              ref |-> c[CHOOSE i \in hits : TRUE].img]
        ELSE IF ~d[path].ok
        THEN [raised |-> TRUE, hit |-> FALSE, cache |-> c, heap |-> h, ref |-> 0]
        ELSE LET full  == Len(c) >= CACHE_MAXSIZE
                 h1    == IF full THEN [h EXCEPT ![c[1].img] = Free] ELSE h
                 kept  == IF full THEN Tail(c) ELSE c
                 r     == NewRef(h1)
                 h2    == [h1 EXCEPT ![r] = adjust_opacity(d[path], path, op, col)]
             IN  [raised |-> FALSE, hit |-> FALSE,
                  cache |-> Append(kept, [key |-> key, img |-> r]),
                  heap |-> h2, ref |-> r]

(* Mutant: the longer side instead of the shorter. *)
long_side(target) == Max(target.w, target.h)

(* scale_watermark, lines 44-50: the overlay's new width from the target's  *)
(* shorter side.                                                             *)
short_side(target) == Min(target.w, target.h)

target_watermark_width(target, ratio) ==
    Trunc(short_side(target) * ratio.num, ratio.den)

(* scale_watermark, lines 53-54: int(h * (tw / w)).  The float product is   *)
(* the exact quotient whenever w is a power of two or tw * h / w is not an  *)
(* integer; on the other inputs Python may return one less.  On the sizes   *)
(* used here (overlay sides up to 3, widths up to 50) the two agree.        *)
target_watermark_height(watermark, tw) ==
    Trunc(watermark.h * tw, watermark.w)

(* Mutant: a resize in place, as Image.thumbnail does. *)
resize_in_place(h, ref, size) ==
    IF size[1] < 1 \/ size[2] < 1
    THEN [raised |-> TRUE, heap |-> h, ref |-> 0]
    ELSE [raised |-> FALSE,
          heap |-> [h EXCEPT ![ref] = [w |-> size[1], h |-> size[2],
                                       px |-> [h[ref].px EXCEPT !.stage = "resized"]]],
          ref |-> ref]

(* Image.resize(size): Pillow raises ValueError("height and width must be   *)
(* > 0") when a side of size is below 1; otherwise it returns a new image   *)
(* and leaves the image it was called on as it is.                           *)
resize(h, ref, size) ==
    IF size[1] < 1 \/ size[2] < 1
    THEN [raised |-> TRUE, heap |-> h, ref |-> 0]
    ELSE LET r == NewRef(h)
         IN  [raised |-> FALSE,
              heap |-> [h EXCEPT ![r] = [w |-> size[1], h |-> size[2],
                                         px |-> [h[ref].px EXCEPT !.stage = "resized"]]],
              ref |-> r]

(* scale_watermark(target_image, watermark_image, scale_ratio) *)
scale_watermark(h, target, watermark, ratio) ==
    LET tw == target_watermark_width(h[target], ratio)
        th == target_watermark_height(h[watermark], tw)
    IN  resize(h, watermark, <<tw, th>>)

(* Mutant: the padding taken off the centre and no clamp at the left edge. *)
calculate_position_padded_center(target, watermark, pos, pad) ==
    CASE pos = "bottom-right" ->
             [raised |-> FALSE,
              x |-> target.w - watermark.w - pad,
              y |-> Max(0, target.h - watermark.h - pad)]
      [] pos = "bottom-left" ->
             [raised |-> FALSE,
              x |-> pad,
              y |-> Max(0, target.h - watermark.h - pad)]
      [] pos = "top-right" ->
             [raised |-> FALSE,
              x |-> Max(0, target.w - watermark.w - pad),
              y |-> pad]
      [] pos = "top-left" ->
             [raised |-> FALSE, x |-> pad, y |-> pad]
      [] pos = "center" ->
             [raised |-> FALSE,
              x |-> (target.w - watermark.w - pad) \div 2,
              y |-> (target.h - watermark.h - pad) \div 2]
      [] OTHER ->
             [raised |-> TRUE, x |-> 0, y |-> 0]

(* calculate_position(target_image, watermark_image, position, padding) *)
calculate_position(target, watermark, pos, pad) ==
    CASE pos = "bottom-right" ->
             [raised |-> FALSE,
              x |-> Max(0, target.w - watermark.w - pad),
              y |-> Max(0, target.h - watermark.h - pad)]
      [] pos = "bottom-left" ->
             [raised |-> FALSE,
              x |-> pad,
              y |-> Max(0, target.h - watermark.h - pad)]
      [] pos = "top-right" ->
             [raised |-> FALSE,
              x |-> Max(0, target.w - watermark.w - pad),
              y |-> pad]
      [] pos = "top-left" ->
             [raised |-> FALSE, x |-> pad, y |-> pad]
      [] pos = "center" ->
             [raised |-> FALSE,
              x |-> (target.w - watermark.w) \div 2,
              y |-> (target.h - watermark.h) \div 2]
      [] OTHER ->
             [raised |-> TRUE, x |-> 0, y |-> 0]

(* main, lines 180-189: the colour option after split(",") and int(); a     *)
(* part that is no integer ends in the same BadParameter as a wrong length  *)
(* or range.                                                                 *)
ColorIsValid(c) == Len(c) = 3 /\ \A i \in 1..Len(c) : 0 <= c[i] /\ c[i] <= 255

(* The exceptions of the program and their Python classes. *)
ValueErrors == {"SizeError", "OpacityError", "ResizeError", "PositionError"}
OSErrors    == {"OpenError", "SaveError"}


-----------------------------------------------------------------------------
(* Spec: one run of the process *)

NoEcho    == [text |-> "", name |-> 0, error |-> "none"]
NoRequest == [n |-> 0, path |-> 0, opacity |-> 0, color |-> <<>>,
              held |-> <<>>, outcome |-> "none", ref |-> 0]
NoGeom    == [done |-> FALSE, base |-> [w |-> 0, h |-> 0],
              overlay |-> [w |-> 0, h |-> 0], position |-> "", padding |-> 0,
              valid |-> FALSE, raised |-> FALSE, x |-> 0, y |-> 0]

Init ==
    /\ caller \in {"batch", "single", "api"}
    /\ opacity \in Opacities
    /\ position \in IF caller = "api" THEN WatermarkPosition \cup {"middle"}
                                      ELSE WatermarkPosition
    /\ padding \in Paddings
    /\ color_opt \in IF caller = "api" THEN {NoColor, Red} ELSE ColorOptions
    /\ color = IF caller = "api" THEN color_opt ELSE NoColor
    /\ watermark_scale_ratio \in IF caller = "api" THEN Ratios
                                 ELSE {DEFAULT_WATERMARK_SCALE_RATIO}
    /\ watermark_image_path = 1
    /\ disk \in [{watermark_image_path} -> WatermarkFiles]
    /\ dir_size \in IF caller = "batch" THEN 0..MaxEntries ELSE {1}
    /\ idx = IF caller = "api" THEN 1 ELSE 0
    /\ attempted = IF caller = "api" THEN {1} ELSE {}
    /\ pc = IF caller = "api" THEN "open_target" ELSE "main"
    /\ exc = "none"
    /\ target_image = 0
    /\ watermark_image = 0
    /\ position_x_y = <<>>
    /\ heap = EmptyHeap
    /\ cache = <<>>
    /\ io = {}
    /\ decodes = 0
    /\ outputs = {}
    /\ echo = NoEcho
    /\ exit_code = -1
    /\ pasted = FALSE
    /\ saved = FALSE
    /\ request = NoRequest
    /\ geom = NoGeom

(* Mutant: the two checks moved behind the paste. *)
StatementAfterChecksLate(s) ==
    CASE s = "open_target"    -> "load_watermark"
      [] s = "load_watermark" -> "scale"
      [] s = "scale"          -> "position"
      [] s = "position"       -> "paste"
      [] s = "paste"          -> "validate"
      [] s = "validate"       -> "check_opacity"
      [] s = "check_opacity"  -> "save"
      [] s = "save"           -> "handle"

(* The order of the statements of add_watermark, lines 91-125. *)
StatementAfter(s) ==
    CASE s = "open_target"    -> "load_watermark"
      [] s = "load_watermark" -> "validate"
      [] s = "validate"       -> "check_opacity"
      [] s = "check_opacity"  -> "scale"
      [] s = "scale"          -> "position"
      [] s = "position"       -> "paste"
      [] s = "paste"          -> "save"
      [] s = "save"           -> "handle"

(* The call of add_watermark: fresh locals. *)
Call(i) ==
    /\ idx' = i
    /\ attempted' = attempted \cup {i}
    /\ pc' = "open_target"
    /\ exc' = "none"
    /\ target_image' = 0
    /\ watermark_image' = 0
    /\ position_x_y' = <<>>
    /\ pasted' = FALSE
    /\ saved' = FALSE

(* An exception leaves add_watermark. *)
Raise(kind) ==
    /\ exc' = kind
    /\ pc' = "handle"

(* The locals of a finished call go out of scope: their images are freed,   *)
(* the one the cache holds is not.                                           *)
Release(h) ==
    LET held == {cache[i].img : i \in 1..Len(cache)}
    IN  [r \in Refs |-> IF r \in {target_image, watermark_image} \ held
                        THEN Free ELSE h[r]]

(* main, lines 180-192 *)
main_parse_color ==
    /\ pc = "main"
    /\ IF color_opt # NoColor /\ ~ColorIsValid(color_opt)
       THEN /\ pc' = "exit"
            /\ exit_code' = 2
            /\ echo' = [text |-> "Color must be in the format R,G,B", name |-> 0,
                        error |-> "BadParameter"]
            /\ UNCHANGED <<color, idx, attempted, exc, target_image,
                           watermark_image, position_x_y, pasted, saved>>
       ELSE /\ color' = color_opt
            /\ IF caller = "batch"
               THEN /\ pc' = "loop"
                    /\ UNCHANGED <<idx, attempted, exc, target_image,
                                   watermark_image, position_x_y, pasted, saved>>
               ELSE Call(1)
            /\ UNCHANGED <<exit_code, echo>>
    /\ UNCHANGED <<argVars, heap, cache, io, decodes, outputs, request, geom>>

(* main, lines 193-207: the next entry of target_image_path.glob("*") *)
main_loop ==
    /\ pc = "loop"
    /\ IF idx < dir_size
       THEN /\ Call(idx + 1)
            /\ heap' = Release(heap)
            /\ UNCHANGED exit_code
       ELSE /\ pc' = "exit"
            /\ exit_code' = 0
            /\ UNCHANGED <<idx, attempted, exc, target_image, watermark_image,
                           position_x_y, pasted, saved, heap>>
    /\ UNCHANGED <<argVars, color, cache, io, decodes, outputs, echo, request, geom>>

(* add_watermark, line 91: Image.open(target_image_path) *)
aw_open_target ==
    /\ pc = "open_target"
    /\ \E f \in TargetFiles :
         /\ io' = io \cup {"open_target"}
         /\ IF f.ok
            THEN LET r == NewRef(heap)
                 IN  /\ heap' = [heap EXCEPT ![r] = Img(f.w, f.h, "opened", idx, 0, <<>>)]
                     /\ target_image' = r
                     /\ pc' = StatementAfter("open_target")
                     /\ UNCHANGED exc
            ELSE /\ Raise("OpenError")
                 /\ UNCHANGED <<heap, target_image>>
    /\ UNCHANGED <<argVars, color, idx, attempted, watermark_image, position_x_y,
                   cache, decodes, outputs, echo, exit_code, pasted, saved,
                   request, geom>>

(* add_watermark, lines 92-94: load_cached_watermark(path, opacity, color) *)
aw_load_watermark ==
    /\ pc = "load_watermark"
    /\ LET got == load_cached_watermark(cache, heap, disk, watermark_image_path,
                                        opacity, color)
       IN  /\ cache' = got.cache
           /\ heap' = got.heap
           /\ io' = IF got.hit THEN io ELSE io \cup {"open_watermark"}
           /\ decodes' = IF got.hit \/ got.raised THEN decodes ELSE decodes + 1
           /\ IF got.raised
              THEN /\ Raise("OpenError")
                   /\ UNCHANGED watermark_image
              ELSE /\ watermark_image' = got.ref
                   /\ pc' = StatementAfter("load_watermark")
                   /\ UNCHANGED exc
    /\ UNCHANGED <<argVars, color, idx, attempted, target_image, position_x_y,
                   outputs, echo, exit_code, pasted, saved, request, geom>>

(* add_watermark, lines 96-100 *)
aw_validate ==
    /\ pc = "validate"
    /\ IF ~validate_image_and_watermark(heap[target_image], heap[watermark_image],
                                        padding)
       THEN Raise("SizeError")
       ELSE /\ pc' = StatementAfter("validate")
            /\ UNCHANGED exc
    /\ UNCHANGED <<argVars, color, idx, attempted, target_image, watermark_image,
                   position_x_y, heap, cache, io, decodes, outputs, echo,
                   exit_code, pasted, saved, request, geom>>

(* add_watermark, lines 102-103 *)
aw_check_opacity ==
    /\ pc = "check_opacity"
    /\ IF opacity > 10 \/ opacity < 0
       THEN Raise("OpacityError")
       ELSE /\ pc' = StatementAfter("check_opacity")
            /\ UNCHANGED exc
    /\ UNCHANGED <<argVars, color, idx, attempted, target_image, watermark_image,
                   position_x_y, heap, cache, io, decodes, outputs, echo,
                   exit_code, pasted, saved, request, geom>>

(* add_watermark, lines 105-108: the local watermark_image is rebound to    *)
(* what scale_watermark returns.                                             *)
aw_scale ==
    /\ pc = "scale"
    /\ LET got == scale_watermark(heap, target_image, watermark_image,
                                  watermark_scale_ratio)
       IN  IF got.raised
           THEN /\ Raise("ResizeError")
                /\ UNCHANGED <<heap, watermark_image>>
           ELSE /\ heap' = got.heap
                /\ watermark_image' = got.ref
                /\ pc' = StatementAfter("scale")
                /\ UNCHANGED exc
    /\ UNCHANGED <<argVars, color, idx, attempted, target_image, position_x_y,
                   cache, io, decodes, outputs, echo, exit_code, pasted, saved,
                   request, geom>>

(* add_watermark, lines 110-116 *)
aw_position ==
    /\ pc = "position"
    /\ LET got == calculate_position(heap[target_image], heap[watermark_image],
                                     position, padding)
       IN  IF got.raised
           THEN /\ Raise("PositionError")
                /\ UNCHANGED position_x_y
           ELSE /\ position_x_y' = <<got.x, got.y>>
                /\ pc' = StatementAfter("position")
                /\ UNCHANGED exc
    /\ UNCHANGED <<argVars, color, idx, attempted, target_image, watermark_image,
                   heap, cache, io, decodes, outputs, echo, exit_code, pasted,
                   saved, request, geom>>

(* add_watermark, lines 118-120: target_image.paste changes the target in   *)
(* place and reads the overlay.                                              *)
aw_paste ==
    /\ pc = "paste"
    /\ heap' = [heap EXCEPT ![target_image].px.stage = "pasted"]
    /\ pasted' = TRUE
    /\ pc' = StatementAfter("paste")
    /\ UNCHANGED <<argVars, color, idx, attempted, exc, target_image,
                   watermark_image, position_x_y, cache, io, decodes, outputs,
                   echo, exit_code, saved, request, geom>>

(* add_watermark, lines 122-125: target_image.save(output_image_path); the  *)
(* write fails with an OSError when the output path cannot be written.       *)
aw_save ==
    /\ pc = "save"
    /\ \E writable \in BOOLEAN :
         IF writable
         THEN /\ outputs' = outputs \cup {idx}
              /\ io' = io \cup {"write_output"}
              /\ saved' = TRUE
              /\ pc' = StatementAfter("save")
              /\ UNCHANGED exc
         ELSE /\ Raise("SaveError")
              /\ UNCHANGED <<outputs, io, saved>>
    /\ UNCHANGED <<argVars, color, idx, attempted, target_image, watermark_image,
                   position_x_y, heap, cache, decodes, echo, exit_code, pasted,
                   request, geom>>

(* main, lines 197-210: what the batch loop does with the outcome of a call *)
main_batch_handle ==
    /\ pc = "handle"
    /\ caller = "batch"
    /\ IF exc = "none"
       THEN /\ echo' = [text |-> "Watermark added to", name |-> idx, error |-> "none"]
            /\ pc' = "loop"
            /\ UNCHANGED exit_code
       ELSE IF exc \in ValueErrors
       THEN /\ echo' = [text |-> "Error processing", name |-> idx, error |-> exc]
            /\ pc' = "loop"
            /\ UNCHANGED exit_code
       ELSE /\ pc' = "exit"
            /\ exit_code' = 1
            /\ UNCHANGED echo
    /\ UNCHANGED <<argVars, color, idx, attempted, exc, target_image,
                   watermark_image, position_x_y, heap, cache, io, decodes,
                   outputs, pasted, saved, request, geom>>

(* main, lines 211-224: single-image mode *)
main_single_handle ==
    /\ pc = "handle"
    /\ caller = "single"
    /\ pc' = "exit"
    /\ IF exc = "none"
       THEN /\ exit_code' = 0
            /\ UNCHANGED echo
       ELSE IF exc \in ValueErrors
       THEN /\ echo' = [text |-> "Error:", name |-> 0, error |-> exc]
            /\ exit_code' = 0
       ELSE /\ exit_code' = 1
            /\ UNCHANGED echo
    /\ UNCHANGED <<argVars, color, idx, attempted, exc, target_image,
                   watermark_image, position_x_y, heap, cache, io, decodes,
                   outputs, pasted, saved, request, geom>>

(* A Python caller of add_watermark that does not catch what it raises. *)
api_handle ==
    /\ pc = "handle"
    /\ caller = "api"
    /\ pc' = "exit"
    /\ exit_code' = IF exc = "none" THEN 0 ELSE 1
    /\ UNCHANGED <<argVars, color, idx, attempted, exc, target_image,
                   watermark_image, position_x_y, heap, cache, io, decodes,
                   outputs, echo, pasted, saved, request, geom>>

Next ==
    \/ main_parse_color
    \/ main_loop
    \/ aw_open_target
    \/ aw_load_watermark
    \/ aw_validate
    \/ aw_check_opacity
    \/ aw_scale
    \/ aw_position
    \/ aw_paste
    \/ aw_save
    \/ main_batch_handle
    \/ main_single_handle
    \/ api_handle

Spec == Init /\ [][Next]_vars


-----------------------------------------------------------------------------
(* SpecGeom: the geometry functions on inputs drawn from bounded sets *)

(* The process variables, at rest in SpecGeom and SpecCache. *)
NoProcess ==
    /\ opacity = DEFAULT_OPACITY
    /\ position = "bottom-right"
    /\ padding = DEFAULT_PADDING
    /\ color_opt = NoColor
    /\ color = NoColor
    /\ watermark_scale_ratio = DEFAULT_WATERMARK_SCALE_RATIO
    /\ watermark_image_path = 1
    /\ dir_size = 0
    /\ idx = 0
    /\ attempted = {}
    /\ pc = "idle"
    /\ exc = "none"
    /\ target_image = 0
    /\ watermark_image = 0
    /\ position_x_y = <<>>
    /\ heap = EmptyHeap
    /\ cache = <<>>
    /\ io = {}
    /\ decodes = 0
    /\ outputs = {}
    /\ echo = NoEcho
    /\ exit_code = -1
    /\ pasted = FALSE
    /\ saved = FALSE
    /\ request = NoRequest

GeomBases    == {[w |-> w, h |-> h] : w \in 1..MaxGeomBase, h \in 1..MaxGeomBase}
                    \cup {[w |-> 800, h |-> 600]}
GeomOverlays == {[w |-> w, h |-> h] : w \in 1..MaxGeomOverlay, h \in 1..MaxGeomOverlay}
                    \cup {[w |-> 100, h |-> 50]}
GeomPaddings == (-1..MaxGeomPadding) \cup {DEFAULT_PADDING}

GeomInit ==
    /\ NoProcess
    /\ caller = "geom"
    /\ disk = [p \in WatermarkPaths |-> NotAnImage]
    /\ \E b \in GeomBases, o \in GeomOverlays, p \in GeomPaddings,
          pos \in WatermarkPosition \cup {"middle"} :
         geom = [NoGeom EXCEPT !.base = b, !.overlay = o, !.padding = p,
                               !.position = pos]

(* validate_image_and_watermark and calculate_position on the same base,    *)
(* overlay and padding.                                                      *)
geom_apply ==
    /\ caller = "geom"
    /\ ~geom.done
    /\ LET got == calculate_position(geom.base, geom.overlay, geom.position,
                                     geom.padding)
       IN  geom' = [geom EXCEPT
                      !.done = TRUE,
                      !.valid = validate_image_and_watermark(geom.base, geom.overlay,
                                                             geom.padding),
                      !.raised = got.raised,
                      !.x = got.x,
                      !.y = got.y]
    /\ UNCHANGED <<argVars, color, idx, attempted, pc, exc, target_image,
                   watermark_image, position_x_y, heap, cache, io, decodes,
                   outputs, echo, exit_code, pasted, saved, request>>

GeomNext == geom_apply

SpecGeom == GeomInit /\ [][GeomNext]_vars

-----------------------------------------------------------------------------
(* SpecCache: a sequence of load_cached_watermark requests in one process *)

CacheInit ==
    /\ NoProcess
    /\ caller = "cache"
    /\ disk \in [WatermarkPaths -> WatermarkFiles]
    /\ geom = NoGeom

(* One call load_cached_watermark(path, opacity, color); the caller drops   *)
(* the image it gets.                                                        *)
cache_request ==
    /\ caller = "cache"
    /\ request.n < MaxRequests
    /\ \E path \in WatermarkPaths, op \in Opacities, col \in {NoColor, Red} :
         LET got == load_cached_watermark(cache, heap, disk, path, op, col)
         IN  /\ cache' = got.cache
             /\ heap' = got.heap
             /\ io' = IF got.hit THEN io ELSE io \cup {"open_watermark"}
             /\ decodes' = IF got.hit \/ got.raised THEN decodes ELSE decodes + 1
             /\ request' = [n |-> request.n + 1, path |-> path, opacity |-> op,
                            color |-> col, held |-> cache,
                            outcome |-> IF got.raised THEN "raised"
                                        ELSE IF got.hit THEN "hit" ELSE "miss",
                            ref |-> got.ref]
    /\ UNCHANGED <<argVars, color, idx, attempted, pc, exc, target_image,
                   watermark_image, position_x_y, outputs, echo, exit_code,
                   pasted, saved, geom>>

CacheNext == cache_request

SpecCache == CacheInit /\ [][CacheNext]_vars


-----------------------------------------------------------------------------
(* Properties *)

(* The image a bound local refers to. *)
Target    == heap[target_image]
Watermark == heap[watermark_image]

OpacityOutOfRange == opacity < 0 \/ opacity > 10
ValidationErrors  == {"SizeError", "OpacityError"}

(* C1: whenever add_watermark reaches the paste or the save without an      *)
(* error, the overlay returned by scale_watermark, plus twice the padding,  *)
(* fits the base image on both axes.                                         *)
C1_ScaledOverlayFitsBase ==
    (pc \in {"paste", "save"} \/ pasted) =>
        /\ Watermark.w + 2 * padding <= Target.w
        /\ Watermark.h + 2 * padding <= Target.h

(* C3: a call that ended in a validation error (target too small, opacity   *)
(* out of range) has not pasted onto the target, has not saved, and has     *)
(* left no output file for its entry.                                       *)
C3_ValidationErrorBeforePasteAndSave ==
    exc \in ValidationErrors =>
        /\ ~pasted
        /\ ~saved
        /\ idx \notin outputs
        /\ target_image # 0 => Target.px.stage = "opened"

C3_Witness ==
    /\ caller = "batch"
    /\ pc = "handle"
    /\ exc = "SizeError"
    /\ idx = 2
    /\ outputs = {1}

(* C4: with an opacity below 0.0 or above 1.0, at the moment the opacity     *)
(* error is raised no file has been opened or decoded, the overlay cache is *)
(* empty and nothing has been written.                                       *)
C4_OpacityErrorBeforeAnyIO ==
    (OpacityOutOfRange /\ pc = "handle" /\ exc = "OpacityError") =>
        /\ io = {}
        /\ decodes = 0
        /\ cache = <<>>

(* C5: in batch mode a failed entry is reported with its name and the batch *)
(* goes on: when main has ended, add_watermark has been attempted for every *)
(* entry of the directory, whatever the failures on other entries.          *)
C5_BatchAttemptsEveryEntry ==
    /\ (caller = "batch" /\ pc = "loop" /\ exc # "none") =>
           (echo.name = idx /\ echo.error = exc)
    /\ (caller = "batch" /\ pc = "exit" /\ exit_code # 2) =>
           attempted = 1..dir_size

(* C6: in single-image mode a run whose add_watermark raised a validation   *)
(* error ends in a failure state: its exit status is not that of a run that *)
(* wrote the output.                                                         *)
C6_SingleModeValidationErrorFails ==
    (caller = "single" /\ pc = "exit" /\ exc \in ValidationErrors) =>
        exit_code # 0

(* C8: the resized overlay is floor(min(bw, bh) * ratio) wide, and with     *)
(* ratio <= 0 or that width below 1 the scale step raises a ValueError, no  *)
(* resized overlay exists and the call goes on to no placement, paste or    *)
(* save.                                                                     *)
C8_DegenerateScaleIsAnError ==
    target_image # 0 =>
        LET short == IF Target.w < Target.h THEN Target.w ELSE Target.h
            width == (short * watermark_scale_ratio.num) \div watermark_scale_ratio.den
            scaleHasRun == pc \in {"handle", "loop", "exit"}
                           /\ exc \notin {"OpenError", "SizeError", "OpacityError"}
        IN  /\ (watermark_scale_ratio.num <= 0 \/ width < 1) =>
                /\ pc \notin {"position", "paste", "save"}
                /\ scaleHasRun => exc = "ResizeError"
                /\ watermark_image # 0 => Watermark.px.stage # "resized"
                /\ position_x_y = <<>>
                /\ ~pasted
                /\ ~saved
                /\ idx \notin outputs
            /\ (watermark_image # 0 /\ Watermark.px.stage = "resized") =>
                   Watermark.w = width

C8_Witness ==
    /\ caller = "single"
    /\ pc = "handle"
    /\ exc = "ResizeError"
    /\ watermark_scale_ratio = DEFAULT_WATERMARK_SCALE_RATIO
    /\ Target.w < 10

(* C10: no call changes the cached overlay: it keeps the size of the file   *)
(* and the pixels adjust_opacity gave it, every call validates and scales   *)
(* against that object, and what is placed and pasted is another object.    *)
C10_CachedOverlayNeverChanges ==
    /\ Len(cache) <= 1
    /\ cache # <<>> =>
         /\ heap[cache[1].img].w = disk[watermark_image_path].w
         /\ heap[cache[1].img].h = disk[watermark_image_path].h
         /\ heap[cache[1].img].px =
                [stage |-> "adjusted", src |-> watermark_image_path,
                 opacity |-> opacity, color |-> color]
    /\ pc \in {"validate", "check_opacity", "scale"} =>
         /\ cache # <<>>
         /\ watermark_image = cache[1].img
    /\ pc \in {"position", "paste", "save"} =>
         /\ cache # <<>>
         /\ watermark_image # cache[1].img

C10_Witness ==
    /\ caller = "batch"
    /\ idx = 2
    /\ pc = "scale"
    /\ 1 \in outputs
    /\ decodes = 1


(* C2: whenever validate_image_and_watermark accepts a base, an overlay and *)
(* a padding >= 0, calculate_position on the same three puts the overlay    *)
(* inside the base, for each of the five positions.                          *)
C2_ValidatedOverlayLiesInsideBase ==
    (geom.done /\ geom.valid /\ geom.padding >= 0
               /\ geom.position \in WatermarkPosition) =>
        /\ ~geom.raised
        /\ 0 <= geom.x
        /\ geom.x + geom.overlay.w <= geom.base.w
        /\ 0 <= geom.y
        /\ geom.y + geom.overlay.h <= geom.base.h

C2_Witness ==
    /\ geom.done
    /\ geom.valid
    /\ geom.padding > 0
    /\ geom.position = "top-left"
    /\ geom.overlay.w + 2 * geom.padding = geom.base.w
    /\ geom.x + geom.overlay.w < geom.base.w

(* C7: calculate_position returns the table of the five positions, with the *)
(* corner offsets clamped at 0 and the centre floored and independent of    *)
(* the padding; 800x600 with a 100x50 overlay and padding 20 gives          *)
(* (350, 275) for center and (680, 530) for bottom-right.                    *)
C7_PositionTable ==
    geom.done =>
        LET bw == geom.base.w
            bh == geom.base.h
            ow == geom.overlay.w
            oh == geom.overlay.h
            p  == geom.padding
            right  == IF bw - ow - p < 0 THEN 0 ELSE bw - ow - p
            bottom == IF bh - oh - p < 0 THEN 0 ELSE bh - oh - p
            example == bw = 800 /\ bh = 600 /\ ow = 100 /\ oh = 50 /\ p = 20
        IN  /\ geom.position = "bottom-right" => geom.x = right /\ geom.y = bottom
            /\ geom.position = "bottom-left"  => geom.x = p /\ geom.y = bottom
            /\ geom.position = "top-right"    => geom.x = right /\ geom.y = p
            /\ geom.position = "top-left"     => geom.x = p /\ geom.y = p
            /\ geom.position = "center" =>
                   /\ 2 * geom.x <= bw - ow /\ bw - ow < 2 * geom.x + 2
                   /\ 2 * geom.y <= bh - oh /\ bh - oh < 2 * geom.y + 2
            /\ geom.position \in WatermarkPosition => ~geom.raised
            /\ (example /\ geom.position = "center") =>
                   geom.x = 350 /\ geom.y = 275
            /\ (example /\ geom.position = "bottom-right") =>
                   geom.x = 680 /\ geom.y = 530

C7_Witness ==
    /\ geom.done
    /\ geom.position = "center"
    /\ geom.base = [w |-> 800, h |-> 600]
    /\ geom.overlay = [w |-> 100, h |-> 50]
    /\ geom.padding = 20
    /\ geom.x = 350


(* What a load_cached_watermark step must do when the held overlay answers  *)
(* the request (hit) and when it does not.                                   *)
AnsweredFromCache ==
    /\ decodes' = decodes
    /\ cache' = cache
    /\ heap' = heap
    /\ request'.ref = cache[1].img

DecodedAndStored ==
    /\ decodes' = decodes + 1
    /\ Len(cache') = 1
    /\ cache'[1].img = request'.ref
    /\ heap'[request'.ref] =
           [w |-> disk[request'.path].w, h |-> disk[request'.path].h,
            px |-> [stage |-> "adjusted", src |-> request'.path,
                    opacity |-> request'.opacity, color |-> request'.color]]
    /\ cache # <<>> =>
           (request'.ref # cache[1].img => heap'[cache[1].img] = Free)

RaisedAndStoredNothing ==
    /\ request'.outcome = "raised"
    /\ decodes' = decodes
    /\ cache' = cache
    /\ heap' = heap

(* C9 as stated: the cache holds at most one entry keyed on (path, opacity): *)
(* a request with the held path and opacity is answered from the cache      *)
(* without decoding, any other request decodes, evicts and stores.           *)
C9_KeyedOnPathAndOpacity ==
    /\ [](Len(cache) <= 1)
    /\ [][request'.n = request.n + 1 =>
            LET held == heap[cache[1].img].px
            IN  IF cache # <<>> /\ held.src = request'.path
                                /\ held.opacity = request'.opacity
                THEN AnsweredFromCache
                ELSE IF disk[request'.path].ok
                THEN DecodedAndStored
                ELSE RaisedAndStoredNothing]_vars

(* C9 amended: the cache holds at most one entry keyed on (path, opacity,   *)
(* colour): a request with the held path, opacity and colour is answered    *)
(* from the cache without decoding; any other request whose file decodes    *)
(* decodes and adjusts it, evicts the held entry and stores the new one; a  *)
(* request whose file does not decode raises and leaves the cache as it is. *)
C9_KeyedOnPathOpacityAndColor ==
    /\ [](Len(cache) <= 1)
    /\ [][request'.n = request.n + 1 =>
            LET held == heap[cache[1].img].px
            IN  IF cache # <<>> /\ held.src = request'.path
                                /\ held.opacity = request'.opacity
                                /\ held.color = request'.color
                THEN AnsweredFromCache
                ELSE IF disk[request'.path].ok
                THEN DecodedAndStored
                ELSE RaisedAndStoredNothing]_vars

C9_Witness ==
    /\ request.n >= 2
    /\ request.outcome = "miss"
    /\ request.held # <<>>
    /\ request.held[1].key[1] = request.path
    /\ request.held[1].key[2] = request.opacity
    /\ request.held[1].key[3] # request.color
    /\ request.held[1].img # 0
    /\ cache[1].img = request.ref
    /\ decodes = 2

=============================================================================
